---- MODULE Spec2Model ----
(***************************************************************************)
(* docker/fabfile.py of dynomite-manager: a Fabric 1.x fabfile.  Importing *)
(* the fabfile reads dynomite-manager/conf/membership.yml and flattens it  *)
(* into env.roledefs; the ten module-level functions are the tasks that    *)
(* `fab` runs, one host of the target list after the other.                *)
(*                                                                         *)
(* Text that the code takes apart (node descriptors, mapping keys, host    *)
(* names) is a sequence of one-character strings; the remote command lines *)
(* are never taken apart and are plain strings.                            *)
(***************************************************************************)
EXTENDS Integers, Sequences, FiniteSets

(***************************************************************************)
(* Bounds of the model                                                     *)
(***************************************************************************)
\* size of a generated membership file: one unit per entry (node, rack or
\* datacenter) plus one unit per character of its text
MaxSize == 4
\* size of the membership files the task runs start from (same measure)
MaxRunSize == 4
\* tasks named on one fab command line
MaxTasks == 2

Chars == {"a", " ", "\t"}

DC1 == <<"d", "1">>
DC2 == <<"d", "2">>
RACK1 == <<"r", "1">>
RACK2 == <<"r", "2">>
DCNames == {DC1, DC2}
RackNames == {RACK1, RACK2}
\* the order in which a mapping built by the generator lists its keys
KeyOrder == <<DC1, DC2, RACK1, RACK2>>

Range(s) == {s[i] : i \in DOMAIN s}

RECURSIVE Strings(_, _)
Strings(alphabet, n) ==
    IF n = 0 THEN {<<>>}
    ELSE LET shorter == Strings(alphabet, n - 1)
         IN  shorter \cup {Append(s, c) : s \in {t \in shorter : Len(t) = n - 1}, c \in alphabet}

(***************************************************************************)
(* Values yaml.load returns: every value has the same five fields.         *)
(*   str  : s is the text                                                  *)
(*   int  : n is the number                                                *)
(*   null : None                                                           *)
(*   list : items are the elements                                         *)
(*   map  : keys[i] (a text) maps to items[i], in iteration order          *)
(***************************************************************************)
Str(text) == [kind |-> "str", s |-> text, n |-> 0, items |-> <<>>, keys |-> <<>>]
Num(i) == [kind |-> "int", s |-> <<>>, n |-> i, items |-> <<>>, keys |-> <<>>]
Null == [kind |-> "null", s |-> <<>>, n |-> 0, items |-> <<>>, keys |-> <<>>]
List(elems) == [kind |-> "list", s |-> <<>>, n |-> 0, items |-> elems, keys |-> <<>>]
Map(ks, vs) == [kind |-> "map", s |-> <<>>, n |-> 0, items |-> vs, keys |-> ks]

(***************************************************************************)
(* Python operations the list comprehension of line 12 applies             *)
(***************************************************************************)
Raised == [err |-> TRUE, val |-> Null]
Value(v) == [err |-> FALSE, val |-> v]

\* `for x in v`: a mapping yields its keys, a string its characters
Iterable(v) == v.kind \in {"list", "map", "str"}
Iter(v) ==
    CASE v.kind = "list" -> v.items
      [] v.kind = "map" -> [i \in DOMAIN v.keys |-> Str(v.keys[i])]
      [] v.kind = "str" -> [i \in DOMAIN v.s |-> Str(<<v.s[i]>>)]
      [] OTHER -> <<>>

\* `v[k]`: KeyError, IndexError and TypeError are all `Raised`
GetItem(v, k) ==
    CASE v.kind = "map" ->
            IF k.kind = "str" /\ \E i \in DOMAIN v.keys : v.keys[i] = k.s
            THEN Value(v.items[CHOOSE i \in DOMAIN v.keys : v.keys[i] = k.s])
            ELSE Raised
      [] v.kind = "list" ->
            IF k.kind = "int" /\ k.n + 1 \in DOMAIN v.items
            THEN Value(v.items[k.n + 1]) ELSE Raised
      [] v.kind = "str" ->
            IF k.kind = "int" /\ k.n + 1 \in DOMAIN v.s
            THEN Value(Str(<<v.s[k.n + 1]>>)) ELSE Raised
      [] OTHER -> Raised

\* str.split(sep) for a one-character sep: the fields between the separators
RECURSIVE split(_, _)
split(text, sep) ==
    IF \A i \in DOMAIN text : text[i] # sep
    THEN <<text>>
    ELSE LET i == CHOOSE j \in DOMAIN text :
                      text[j] = sep /\ \A k \in 1..(j - 1) : text[k] # sep
         IN  <<SubSeq(text, 1, i - 1)>> \o split(SubSeq(text, i + 1, Len(text)), sep)

\* as first_field, had the code called node.split(): any white space ends
\* the field
first_field_any_blank(node) ==
    IF node.kind = "str"
    THEN [err |-> FALSE,
          val |-> SubSeq(node.s, 1,
                         CHOOSE k \in 0..Len(node.s) :
                             /\ \A j \in 1..k : node.s[j] \notin {" ", "\t"}
                             /\ k = Len(node.s) \/ node.s[k + 1] \in {" ", "\t"})]
    ELSE [err |-> TRUE, val |-> <<>>]

\* node.split(" ")[0]; only a str has the method split
first_field(node) ==
    IF node.kind = "str"
    THEN [err |-> FALSE, val |-> split(node.s, " ")[1]]
    ELSE [err |-> TRUE, val |-> <<>>]

NoHosts == [err |-> FALSE, val |-> <<>>]
HostsRaised == [err |-> TRUE, val |-> <<>>]

\* [node.split(" ")[0] ... for node in rackv], elements from..Len
RECURSIVE rack_hosts(_, _)
rack_hosts(nodes, from) ==
    IF from > Len(nodes) THEN NoHosts
    ELSE LET f == first_field(nodes[from])
             rest == rack_hosts(nodes, from + 1)
         IN  IF f.err \/ rest.err THEN HostsRaised
             ELSE [err |-> FALSE, val |-> <<f.val>> \o rest.val]

\* [... for rack in dcv for node in dcv[rack]], racks from..Len
RECURSIVE dc_hosts(_, _, _)
dc_hosts(dcv, racks, from) ==
    IF from > Len(racks) THEN NoHosts
    ELSE LET rackv == GetItem(dcv, racks[from])
         IN  IF rackv.err \/ ~Iterable(rackv.val) THEN HostsRaised
             ELSE LET here == rack_hosts(Iter(rackv.val), 1)
                      rest == dc_hosts(dcv, racks, from + 1)
                  IN  IF here.err \/ rest.err THEN HostsRaised
                      ELSE [err |-> FALSE, val |-> here.val \o rest.val]

\* the pair (dc, [...]) of line 12 for one element dc of membership_yaml
dc_entry(doc, dc) ==
    LET dcv == GetItem(doc, dc)
    IN  IF dcv.err \/ ~Iterable(dcv.val) THEN HostsRaised
        ELSE dc_hosts(dcv.val, Iter(dcv.val), 1)

EmptyDict == [k \in {} |-> <<>>]

\* as roledefs_of, had the code refused a file without datacenters
roledefs_of_some(doc) ==
    IF ~Iterable(doc) \/ Iter(doc) = <<>> THEN [err |-> TRUE, val |-> EmptyDict]
    ELSE LET dcs == Iter(doc)
         IN  IF \E i \in DOMAIN dcs : dc_entry(doc, dcs[i]).err
             THEN [err |-> TRUE, val |-> EmptyDict]
             ELSE [err |-> FALSE,
                   val |-> [k \in {dcs[i].s : i \in DOMAIN dcs} |->
                              dc_entry(doc, Str(k)).val]]

\* dict([(dc, [...]) for dc in membership_yaml]): either the whole dict or
\* the exception.  When no dc_entry raises, every element of the iteration
\* is a key of a mapping (indexing a list or a string by one of its own
\* elements raises), so the keys of the dict are texts.
roledefs_of(doc) ==
    IF ~Iterable(doc) THEN [err |-> TRUE, val |-> EmptyDict]
    ELSE LET dcs == Iter(doc)
         IN  IF \E i \in DOMAIN dcs : dc_entry(doc, dcs[i]).err
             THEN [err |-> TRUE, val |-> EmptyDict]
             ELSE [err |-> FALSE,
                   val |-> [k \in {dcs[i].s : i \in DOMAIN dcs} |->
                              dc_entry(doc, Str(k)).val]]
(***************************************************************************)
(* The membership files the model starts from.  A file is missing, is not  *)
(* YAML, or parses to a document.  Documents are built from a sequence of  *)
(* entries, each placing one thing at a datacenter or at a rack of it:     *)
(*   node  : one more element of the rack's list                           *)
(*   rack  : the rack, with an empty list unless nodes are placed in it    *)
(*   rackv : the rack with `val` as its value instead of a list            *)
(*   dc    : the datacenter, with no rack unless one is placed in it       *)
(*   dcv   : the datacenter with `val` as its value instead of a mapping   *)
(***************************************************************************)
Entry(role, dc, rack, val) == [role |-> role, dc |-> dc, rack |-> rack, val |-> val]
\* an entry that puts something else than the topology's shape allows
Odd(e) == e.role \in {"rackv", "dcv"} \/ (e.role = "node" /\ e.val.kind # "str")
\* one unit per entry, one per character of its text, one for being odd
Cost(e) == 1 + Len(e.val.s) + (IF Odd(e) THEN 1 ELSE 0)
\* the place of an entry in the file: datacenter by datacenter, a
\* datacenter's own entries before those of its racks
Rank(e) ==
    3 * (IF e.dc = DC1 THEN 0 ELSE 1)
      + (IF e.rack = <<>> THEN 0 ELSE IF e.rack = RACK1 THEN 1 ELSE 2)

\* the entries of the given roles over the given texts; Num(0) stands for a
\* node that is no string
Entries(texts, roles) ==
    LET strs == {Str(t) : t \in texts}
        all == {Entry("node", d, r, v) : d \in DCNames, r \in RackNames, v \in strs \cup {Num(0)}}
               \cup {Entry("rack", d, r, Null) : d \in DCNames, r \in RackNames}
               \cup {Entry("rackv", d, r, v) : d \in DCNames, r \in RackNames,
                          v \in strs \cup {Num(0), Null, Map(<<>>, <<>>)}}
               \cup {Entry("dc", d, <<>>, Null) : d \in DCNames}
               \cup {Entry("dcv", d, <<>>, v) : d \in DCNames,
                          v \in {Null, Num(0), List(<<>>), Str(<<>>)}}
    IN  {e \in all : e.role \in roles}

\* the entries by cost and rank
Index(entries, size) ==
    [c \in 1..size, r \in 0..5 |-> {e \in entries : Cost(e) = c /\ Rank(e) = r}]

\* the entry sequences within the budget, in file order from `rank` on
RECURSIVE EntrySeqs(_, _, _)
EntrySeqs(index, budget, rank) ==
    {<<>>} \cup UNION {{<<e>> \o rest : e \in index[c, r],
                                        rest \in EntrySeqs(index, budget - c, r)} :
                         c \in 1..budget, r \in rank..5}

RackValue(es, d, r) ==
    LET IsValue(e) == e.role = "rackv" /\ e.dc = d /\ e.rack = r
        IsNode(e) == e.role = "node" /\ e.dc = d /\ e.rack = r
        values == SelectSeq(es, IsValue)
        nodes == SelectSeq(es, IsNode)
    IN  IF values # <<>> THEN values[1].val
        ELSE List([i \in DOMAIN nodes |-> nodes[i].val])

DcValue(es, d) ==
    LET IsValue(e) == e.role = "dcv" /\ e.dc = d
        values == SelectSeq(es, IsValue)
        Placed(r) == r \in RackNames /\
                     \E i \in DOMAIN es : es[i].dc = d /\ es[i].rack = r
        racks == SelectSeq(KeyOrder, Placed)
    IN  IF values # <<>> THEN values[1].val
        ELSE Map(racks, [i \in DOMAIN racks |-> RackValue(es, d, racks[i])])

Topology(es) ==
    LET Placed(d) == d \in DCNames /\ \E i \in DOMAIN es : es[i].dc = d
        dcs == SelectSeq(KeyOrder, Placed)
    IN  Map(dcs, [i \in DOMAIN dcs |-> DcValue(es, dcs[i])])

Missing == [status |-> "missing", doc |-> Null]
NotYaml == [status |-> "invalid", doc |-> Null]
Parsed(doc) == [status |-> "ok", doc |-> doc]

\* documents that are no mapping at all; Null is what an empty file parses to
NoMapping == {Null, Num(0), Str(<<>>), Str(<<"a">>), List(<<>>), List(<<Num(0)>>),
              List(<<Str(<<"a">>)>>)}

Files(index, size) ==
    {Missing, NotYaml} \cup {Parsed(d) : d \in NoMapping}
        \cup {Parsed(Topology(es)) : es \in EntrySeqs(index, size, 0)}

AllRoles == {"node", "rack", "rackv", "dc", "dcv"}
\* every file of the given size over Chars
LoadFiles(size) == Files(Index(Entries(Strings(Chars, size - 1), AllRoles), size), size)
\* the files the task runs start from: nodes only, each a host name or no string
HostNames == {<<"a">>, <<"b">>}
RunIndex == Index(Entries(HostNames, {"node"}), MaxRunSize)
RunFiles == Files(RunIndex, MaxRunSize)

(***************************************************************************)
(* The tasks: each function body is one call of sudo with a literal.       *)
(***************************************************************************)
\* fabric's sudo(command): the command line is run on the current host
\* through `sudo`, inside the login shell that fabric wraps it in
sudo(command) == [command |-> command, use_sudo |-> TRUE]

status == sudo("curl localhost:8080/REST/v1/admin/status")
start == sudo("curl localhost:8080/REST/v1/admin/start")
\* as stop, had its body been copied from start and left as it was
stop_calls_start == sudo("curl localhost:8080/REST/v1/admin/start")
stop == sudo("curl localhost:8080/REST/v1/admin/stop")
startstorageprocess == sudo("curl localhost:8080/REST/v1/admin/startstorageprocess")
stopstorageprocess == sudo("curl localhost:8080/REST/v1/admin/stopstorageprocess")
backup == sudo("curl localhost:8080/REST/v1/admin/backup")
restore == sudo("curl localhost:8080/REST/v1/admin/restore")
cluster_describe == sudo("curl localhost:8080/REST/v1/admin/cluster_describe")
repair == sudo("curl localhost:8080/REST/v1/admin/repair")
\* as disable_thp, had it asked the admin service like the other nine
disable_thp_by_curl == sudo("curl localhost:8080/REST/v1/admin/disable_thp")
disable_thp == sudo("echo never > /sys/kernel/mm/transparent_hugepage/enabled")

\* the names the module binds, each with what fab looks at when it collects
\* the tasks: whether the object is callable and whether it is one of
\* fabric's own (the names of lines 3 and 4)
Name(callable, internal) == [callable |-> callable, internal |-> internal]
\* as Namespace, had the fabfile defined a helper of its own named put
Namespace_own_put ==
    [n \in {"env", "hosts", "put", "sudo", "settings", "yaml",
             "membership_file", "roles", "membership_yaml",
             "status", "start", "stop", "startstorageprocess", "stopstorageprocess",
             "backup", "restore", "cluster_describe", "repair", "disable_thp"} |->
        CASE n \in {"hosts", "sudo", "settings"} -> Name(TRUE, TRUE)
          [] n \in {"env", "yaml", "membership_file", "roles", "membership_yaml"} ->
                Name(FALSE, FALSE)
          [] OTHER -> Name(TRUE, FALSE)]
Namespace ==
    [n \in {"env", "hosts", "put", "sudo", "settings", "yaml",
             "membership_file", "roles", "membership_yaml",
             "status", "start", "stop", "startstorageprocess", "stopstorageprocess",
             "backup", "restore", "cluster_describe", "repair", "disable_thp"} |->
        CASE n \in {"hosts", "put", "sudo", "settings"} -> Name(TRUE, TRUE)
          [] n \in {"env", "yaml", "membership_file", "roles", "membership_yaml"} ->
                Name(FALSE, FALSE)
          [] OTHER -> Name(TRUE, FALSE)]

\* fab's classic task collection: the callables of the module that are not
\* fabric's own
Tasks == {n \in DOMAIN Namespace : Namespace[n].callable /\ ~Namespace[n].internal}

\* what calling the task of that name does
Call(name) ==
    CASE name = "status" -> status
      [] name = "start" -> start
      [] name = "stop" -> stop
      [] name = "startstorageprocess" -> startstorageprocess
      [] name = "stopstorageprocess" -> stopstorageprocess
      [] name = "backup" -> backup
      [] name = "restore" -> restore
      [] name = "cluster_describe" -> cluster_describe
      [] name = "repair" -> repair
      [] name = "disable_thp" -> disable_thp

(***************************************************************************)
(* fab resolves the selected role to the host list of a task: the role's   *)
(* hosts without surrounding white space, each host once, in order         *)
(***************************************************************************)
Blank == {" ", "\t"}

RECURSIVE strip(_)
strip(text) ==
    IF text = <<>> THEN text
    ELSE IF Head(text) \in Blank THEN strip(Tail(text))
    ELSE IF text[Len(text)] \in Blank THEN strip(SubSeq(text, 1, Len(text) - 1))
    ELSE text

RECURSIVE dedupe(_)
dedupe(hs) ==
    IF hs = <<>> THEN hs
    ELSE LET front == dedupe(SubSeq(hs, 1, Len(hs) - 1))
             last == hs[Len(hs)]
         IN  IF last \in Range(front) THEN front ELSE Append(front, last)

merge(hs) == dedupe([i \in DOMAIN hs |-> strip(hs[i])])

(***************************************************************************)
(* State                                                                   *)
(***************************************************************************)
VARIABLES
    membership_file,   \* dynomite-manager/conf/membership.yml on disk
    membership_yaml,   \* the module's global of that name (Null while unbound)
    env,               \* fabric's env: the settings the run depends on
    pc,                \* where the fab run is
    requested,         \* the command-line name fab did not find, if any
    command,           \* the task being executed
    all_hosts,         \* the host list of the task being executed
    results,           \* the outcome on each host visited by the task so far
    issued,            \* the remote commands the task has run so far
    ntasks             \* tasks started in this run

vars == <<membership_file, membership_yaml, env, pc, requested, command, all_hosts,
          results, issued, ntasks>>

\* names an operator may type: the module's names, and the names of the
\* dispatcher contract written with hyphens
CommandLineNames ==
    DOMAIN Namespace \cup {"start-storage-process", "stop-storage-process",
                           "cluster-describe", "disable-transparent-huge-pages"}

Outcomes == {"ok", "nonzero", "unreachable"}

\* env as fabric sets it up before it imports the fabfile; warn_only and
\* skip_bad_hosts are False unless given on the command line
InitWith(files, flags) ==
    /\ membership_file \in files
    /\ membership_yaml = Null
    /\ \E w \in flags, s \in flags :
          env = [use_ssh_config |-> FALSE, warn_only |-> w, skip_bad_hosts |-> s,
                 roledefs |-> EmptyDict, roles |-> <<>>]
    /\ pc = "import"
    /\ requested = ""
    /\ command = ""
    /\ all_hosts = <<>>
    /\ results = <<>>
    /\ issued = <<>>
    /\ ntasks = 0

Init == InitWith(RunFiles, BOOLEAN)
InitLoad == InitWith(LoadFiles(MaxSize), {FALSE})

(***************************************************************************)
(* Importing the fabfile, lines 8 to 12                                    *)
(***************************************************************************)
\* lines 8 and 9: open() raises IOError when the file is missing
OpenMembership ==
    /\ pc = "import"
    /\ env' = [env EXCEPT !.use_ssh_config = TRUE]
    /\ pc' = IF membership_file.status = "missing" THEN "load_failed" ELSE "opened"
    /\ UNCHANGED <<membership_file, membership_yaml, requested, command, all_hosts,
                   results, issued, ntasks>>

\* lines 10 and 11: yaml.load raises on text that is not YAML
LoadYaml ==
    /\ pc = "opened"
    /\ IF membership_file.status = "invalid"
       THEN pc' = "load_failed" /\ UNCHANGED membership_yaml
       ELSE pc' = "parsed" /\ membership_yaml' = membership_file.doc
    /\ UNCHANGED <<membership_file, env, requested, command, all_hosts, results,
                   issued, ntasks>>

\* as SetRoledefs, had the code caught the exception and gone on without
\* the role map
SetRoledefs_goes_on ==
    /\ pc = "parsed"
    /\ LET built == roledefs_of(membership_yaml)
       IN  IF built.err
           THEN pc' = "loaded" /\ UNCHANGED env
           ELSE pc' = "loaded" /\ env' = [env EXCEPT !.roledefs = built.val]
    /\ UNCHANGED <<membership_file, membership_yaml, requested, command, all_hosts,
                   results, issued, ntasks>>

\* line 12: env.roledefs is assigned once the whole dict is built
SetRoledefs ==
    /\ pc = "parsed"
    /\ LET built == roledefs_of(membership_yaml)
       IN  IF built.err
           THEN pc' = "load_failed" /\ UNCHANGED env
           ELSE pc' = "loaded" /\ env' = [env EXCEPT !.roledefs = built.val]
    /\ UNCHANGED <<membership_file, membership_yaml, requested, command, all_hosts,
                   results, issued, ntasks>>

(***************************************************************************)
(* The fab run after the import                                            *)
(***************************************************************************)
\* fab looks every name of the command line up before it runs any task, and
\* selects the role given with -R
ParseArguments ==
    /\ pc = "loaded"
    /\ \/ \E r \in DOMAIN env.roledefs :
             /\ env' = [env EXCEPT !.roles = <<r>>]
             /\ pc' = "ready"
             /\ UNCHANGED requested
       \/ \E n \in CommandLineNames \ Tasks :
             /\ requested' = n
             /\ pc' = "not_found"
             /\ UNCHANGED env
    /\ UNCHANGED <<membership_file, membership_yaml, command, all_hosts, results,
                   issued, ntasks>>

\* the next task of the command line starts on the hosts of the role
ExecuteTask(name) ==
    /\ pc = "ready"
    /\ ntasks < MaxTasks
    /\ name \in Tasks
    /\ merge(env.roledefs[env.roles[1]]) # <<>>
    /\ command' = name
    /\ all_hosts' = merge(env.roledefs[env.roles[1]])
    /\ results' = <<>>
    /\ issued' = <<>>
    /\ ntasks' = ntasks + 1
    /\ pc' = "running"
    /\ UNCHANGED <<membership_file, membership_yaml, env, requested>>

\* as Tolerated, had the fabfile set env.warn_only and env.skip_bad_hosts
Tolerated_always(outcome) == outcome \in {"ok", "nonzero", "unreachable"}

\* whether the run goes on after that outcome on a host.  sudo() aborts the
\* run on a non-zero exit status unless env.warn_only is set, and fab aborts
\* on a host it cannot connect to unless env.skip_bad_hosts is set; the
\* fabfile sets neither, and no task body wraps its call in settings(...)
Tolerated(outcome) ==
    \/ outcome = "ok"
    \/ outcome = "nonzero" /\ env.warn_only
    \/ outcome = "unreachable" /\ env.skip_bad_hosts

\* as RunOnHost, had the task body taken a host it cannot connect to out
\* of the role
RunOnHost_drops_host(outcome) ==
    /\ pc = "running"
    /\ LET host == all_hosts[Len(results) + 1]
           call == Call(command)
           role == env.roles[1]
           NotHost(h) == h # host
       IN  /\ issued' = IF outcome = "unreachable" THEN issued
                        ELSE Append(issued, [host |-> host, command |-> call.command,
                                             use_sudo |-> call.use_sudo])
           /\ results' = Append(results, outcome)
           /\ env' = IF outcome = "unreachable"
                     THEN [env EXCEPT !.roledefs[role] = SelectSeq(@, NotHost)]
                     ELSE env
           /\ pc' = IF ~Tolerated(outcome) THEN "aborted"
                    ELSE IF Len(results) + 1 = Len(all_hosts) THEN "ready"
                    ELSE "running"
    /\ UNCHANGED <<membership_file, membership_yaml, requested, command,
                   all_hosts, ntasks>>

\* the task body runs on the next host of the list: the remote command is
\* run unless the host cannot be connected to
RunOnHost(outcome) ==
    /\ pc = "running"
    /\ LET host == all_hosts[Len(results) + 1]
           call == Call(command)
       IN  /\ issued' = IF outcome = "unreachable" THEN issued
                        ELSE Append(issued, [host |-> host, command |-> call.command,
                                             use_sudo |-> call.use_sudo])
           /\ results' = Append(results, outcome)
           /\ pc' = IF ~Tolerated(outcome) THEN "aborted"
                    ELSE IF Len(results) + 1 = Len(all_hosts) THEN "ready"
                    ELSE "running"
    /\ UNCHANGED <<membership_file, membership_yaml, env, requested, command,
                   all_hosts, ntasks>>

Next ==
    \/ OpenMembership
    \/ LoadYaml
    \/ SetRoledefs
    \/ ParseArguments
    \/ \E name \in CommandLineNames : ExecuteTask(name)
    \/ \E outcome \in Outcomes : RunOnHost(outcome)

NextLoad ==
    \/ OpenMembership
    \/ LoadYaml
    \/ SetRoledefs

Spec == Init /\ [][Next]_vars
SpecLoad == InitLoad /\ [][NextLoad]_vars
(***************************************************************************)
(* Properties of the membership loader (specification SpecLoad)            *)
(***************************************************************************)
\* datacenter -> rack -> list of strings
IsTopology(doc) ==
    /\ doc.kind = "map"
    /\ \A i \in DOMAIN doc.items :
          /\ doc.items[i].kind = "map"
          /\ \A j \in DOMAIN doc.items[i].items :
                /\ doc.items[i].items[j].kind = "list"
                /\ \A k \in DOMAIN doc.items[i].items[j].items :
                      doc.items[i].items[j].items[k].kind = "str"

\* the places <<rack, node>> of the node descriptors of a datacenter
Places(dcv) ==
    UNION {{<<j, k>> : k \in DOMAIN dcv.items[j].items} : j \in DOMAIN dcv.items}
Descriptor(dcv, p) == dcv.items[p[1]].items[p[2]].s
Descriptors(doc) ==
    UNION {{Descriptor(doc.items[i], p) : p \in Places(doc.items[i])} : i \in DOMAIN doc.items}

HasToken(text) == \E i \in DOMAIN text : text[i] \notin Blank
\* the first white-space-delimited token of a text that has one
FirstToken(text) ==
    LET b == CHOOSE i \in DOMAIN text :
                 text[i] \notin Blank /\ \A j \in 1..(i - 1) : text[j] \in Blank
        e == CHOOSE i \in b..Len(text) :
                 /\ \A j \in b..i : text[j] \notin Blank
                 /\ i = Len(text) \/ text[i + 1] \in Blank
    IN  SubSeq(text, b, e)
\* the text before the first space character, all of it when there is none
BeforeSpace(text) ==
    LET k == CHOOSE i \in 0..Len(text) :
                 /\ \A j \in 1..i : text[j] # " "
                 /\ i = Len(text) \/ text[i + 1] = " "
    IN  SubSeq(text, 1, k)

\* hosts holds, as a multiset, Token of every node descriptor of dcv
HostsAre(hosts, dcv, Token(_)) ==
    /\ Len(hosts) = Cardinality(Places(dcv))
    /\ \A x \in Range(hosts) :
          Cardinality({i \in DOMAIN hosts : hosts[i] = x})
            = Cardinality({p \in Places(dcv) : Token(Descriptor(dcv, p)) = x})

RoleMapIs(Token(_)) ==
    /\ DOMAIN env.roledefs = Range(membership_yaml.keys)
    /\ \A i \in DOMAIN membership_yaml.keys :
          HostsAre(env.roledefs[membership_yaml.keys[i]], membership_yaml.items[i], Token)

\* C1 as stated: for a well-formed topology whose descriptors each hold a
\* host, the role map has the topology's datacenters as keys and, for each,
\* the multiset of the first white-space-delimited tokens of its descriptors.
C1_FirstWhitespaceToken ==
    (/\ pc = "loaded"
     /\ IsTopology(membership_yaml)
     /\ \A t \in Descriptors(membership_yaml) : HasToken(t))
        => RoleMapIs(FirstToken)

\* C1 (amended): for every well-formed topology the role map has exactly the
\* topology's datacenters as keys and, for each, the multiset (duplicates
\* kept) of the text before the first space character of every descriptor
\* of all its racks.  A tab does not end the host; a leading space gives "".
C1_FirstSpaceField ==
    (pc = "loaded" /\ IsTopology(membership_yaml)) => RoleMapIs(BeforeSpace)

\* a topology with two racks of one datacenter loaded, one descriptor
\* holding white space after its host
C1_Witness ==
    /\ pc = "loaded"
    /\ IsTopology(membership_yaml)
    /\ \E i \in DOMAIN membership_yaml.items :
          /\ Len(membership_yaml.items[i].items) = 2
          /\ Len(env.roledefs[membership_yaml.keys[i]]) >= 1
    /\ \E t \in Descriptors(membership_yaml) :
          Len(t) >= 2 /\ t[1] = "a" /\ t[2] \in Blank

\* some rack of some datacenter has a value that is no list
NonListRack(doc) ==
    /\ doc.kind = "map"
    /\ \E i \in DOMAIN doc.items :
          /\ doc.items[i].kind = "map"
          /\ \E j \in DOMAIN doc.items[i].items : doc.items[i].items[j].kind # "list"
\* some node of some rack list is no string
NonStringNode(doc) ==
    /\ doc.kind = "map"
    /\ \E i \in DOMAIN doc.items :
          /\ doc.items[i].kind = "map"
          /\ \E j \in DOMAIN doc.items[i].items :
                /\ doc.items[i].items[j].kind = "list"
                /\ \E k \in DOMAIN doc.items[i].items[j].items :
                      doc.items[i].items[j].items[k].kind # "str"

\* C4: a topology in which a rack's value is not a list never loads.
C4_NonListRackFails ==
    (membership_file.status = "ok" /\ NonListRack(membership_file.doc)) => pc # "loaded"

\* C5: a topology with zero datacenters (the empty mapping) loads, and the
\* role map it gives is empty.
C5_ZeroDatacenters ==
    membership_file = Parsed(Map(<<>>, <<>>))
        => /\ pc # "load_failed"
           /\ pc = "loaded" => env.roledefs = EmptyDict
           /\ pc = "parsed" => ENABLED SetRoledefs

C5_Witness ==
    pc = "loaded" /\ membership_yaml = Map(<<>>, <<>>) /\ DOMAIN env.roledefs = {}

\* C6: a topology with a malformed rack or node never loads, so no role
\* map that leaves the malformed part out is ever installed.
C6_AllOrNothing ==
    (/\ membership_file.status = "ok"
     /\ NonListRack(membership_file.doc) \/ NonStringNode(membership_file.doc))
        => pc # "loaded"
(***************************************************************************)
(* Properties of the fab run (specification Spec)                          *)
(***************************************************************************)
\* the task started last is over: every host was visited, or the run aborted
TaskOver == ntasks > 0 /\ pc \in {"ready", "aborted"}
Failed(outcome) == outcome # "ok"
\* the hosts of the list on which a remote command was run
Invoked == {issued[i].host : i \in DOMAIN issued}

\* C2 as stated: when the command fails on one host of two or more, the
\* run is not aborted and every other host of the list is still visited.
C2_FailureDoesNotBlock ==
    (/\ TaskOver
     /\ Len(all_hosts) >= 2
     /\ \E i \in DOMAIN results : Failed(results[i]))
        => /\ pc # "aborted"
           /\ \A i \in DOMAIN all_hosts : i \in DOMAIN results

\* C2 (amended): a failure on one host ends the run at that host, so that
\* no host after it in the list is visited and the run is aborted, unless
\* fab was told to go on (warn_only for a non-zero exit status,
\* skip_bad_hosts for a connection failure; the fabfile sets neither).  The
\* hosts before the failing one have been visited; a task that is not
\* aborted visits every host of its list.
C2_FailFast ==
    LET Stops(outcome) ==
            \/ outcome = "nonzero" /\ ~env.warn_only
            \/ outcome = "unreachable" /\ ~env.skip_bad_hosts
    IN  /\ \A i \in DOMAIN results :
              Stops(results[i]) => i = Len(results) /\ pc = "aborted"
        /\ pc = "aborted" => results # <<>> /\ Stops(results[Len(results)])
        /\ Len(results) <= Len(all_hosts)
        /\ Invoked = {all_hosts[i] : i \in {j \in DOMAIN results : results[j] # "unreachable"}}
        /\ (ntasks > 0 /\ pc = "ready") => Len(results) = Len(all_hosts)

\* the command failed on the first of two hosts and fab stopped there
C2_Witness ==
    /\ pc = "aborted"
    /\ Len(all_hosts) = 2
    /\ results = <<"nonzero">>
    /\ all_hosts[2] \notin Invoked

\* the import of the fabfile raises on this file
LoadFails(file) == file.status # "ok" \/ roledefs_of(file.doc).err

\* C3: in an execution in which loading the membership file fails, fab
\* never gets past the import: no task starts and no remote command runs.
C3_LoadErrorIsFatal ==
    LoadFails(membership_file)
        => /\ pc \in {"import", "opened", "parsed", "load_failed"}
           /\ ntasks = 0
           /\ issued = <<>>
           /\ pc = "load_failed" => ~ENABLED Next

C3_Witness ==
    /\ pc = "load_failed"
    /\ membership_file.status = "ok"
    /\ issued = <<>>

HttpCommands == {"status", "start", "stop", "startstorageprocess", "stopstorageprocess",
                 "backup", "restore", "cluster_describe", "repair"}
AdminUrl == "curl localhost:8080/REST/v1/admin/"

\* C7: each of the nine HTTP-backed commands runs, on whatever host, through
\* sudo, exactly `curl localhost:8080/REST/v1/admin/<its name>`, and no two
\* of them run the same command line.
C7_AdminCurl ==
    /\ HttpCommands \subseteq Tasks
    /\ command \in HttpCommands =>
          \A i \in DOMAIN issued :
              issued[i].command = AdminUrl \o command /\ issued[i].use_sudo
    /\ \A c, d \in HttpCommands : c # d => Call(c).command # Call(d).command

C7_Witness ==
    /\ command = "cluster_describe"
    /\ pc = "ready"
    /\ Len(issued) = 2
    /\ issued[1].host # issued[2].host

ThpWrite == "echo never > /sys/kernel/mm/transparent_hugepage/enabled"
Writes(h) == Cardinality({i \in DOMAIN issued : issued[i].host = h /\ issued[i].command = ThpWrite})

\* C8 as stated: once the huge-page command is over, every host of its
\* list has seen exactly one write.
C8_OneWritePerHost ==
    (TaskOver /\ command = "disable_thp")
        => \A h \in Range(all_hosts) : Writes(h) = 1

\* C8 (amended): the huge-page command runs, through sudo, nothing but the
\* write of `never` to the transparent-huge-page file, and no HTTP call; it
\* writes exactly once on every host of the list that it reaches and never
\* on a host it cannot connect to or that comes after a failure that aborts
\* the run; so it makes N writes on N hosts when it reaches them all.
C8_OneWritePerReachedHost ==
    command = "disable_thp"
        => /\ \A i \in DOMAIN issued :
                 issued[i].command = ThpWrite /\ issued[i].use_sudo
           /\ \A i \in DOMAIN all_hosts :
                 Writes(all_hosts[i]) =
                     IF i \in DOMAIN results /\ results[i] # "unreachable" THEN 1 ELSE 0
           /\ (pc = "ready" /\ \A i \in DOMAIN results : results[i] # "unreachable")
                 => Len(issued) = Len(all_hosts)

C8_Witness ==
    /\ command = "disable_thp"
    /\ pc = "ready"
    /\ Len(all_hosts) = 2
    /\ Writes(all_hosts[1]) = 1 /\ Writes(all_hosts[2]) = 1
    /\ Len(issued) = 2

ContractNames == {"status", "start", "stop", "start-storage-process",
                  "stop-storage-process", "backup", "restore", "cluster-describe",
                  "repair", "disable-transparent-huge-pages"}
FunctionNames == {"status", "start", "stop", "startstorageprocess",
                  "stopstorageprocess", "backup", "restore", "cluster_describe",
                  "repair", "disable_thp"}

\* C9 as stated: fab finds every name of the dispatcher contract, and runs
\* no task under another name.
C9_ContractNames ==
    /\ pc = "not_found" => requested \notin ContractNames
    /\ command # "" => command \in ContractNames

\* C9 (amended): the command names are exactly the names of the ten
\* functions of the fabfile: status, start, stop, startstorageprocess,
\* stopstorageprocess, backup, restore, cluster_describe, repair and
\* disable_thp.  Each can be started; fab finds no other name, the
\* hyphenated names of the contract and the imported names included.
C9_FunctionNames ==
    /\ Tasks = FunctionNames
    /\ pc = "not_found" => requested \notin FunctionNames
    /\ command # "" => command \in FunctionNames
    /\ (pc = "ready" /\ ntasks < MaxTasks /\ merge(env.roledefs[env.roles[1]]) # <<>>)
          => \A n \in FunctionNames : ENABLED ExecuteTask(n)

C9_Witness ==
    pc = "not_found" /\ requested = "start-storage-process"

\* C10: once loaded, the role map is never changed by a command, whatever
\* its outcome, and the command line a task runs on a host depends on the
\* task alone, not on the tasks run before.
C10_RoleMapFrozen ==
    [][/\ pc \notin {"import", "opened", "parsed"} => env.roledefs' = env.roledefs
       /\ Len(issued') > Len(issued) =>
             /\ issued' = Append(issued, issued'[Len(issued')])
             /\ issued'[Len(issued')].command =
                   (IF command \in HttpCommands THEN AdminUrl \o command ELSE ThpWrite)]_vars

\* a second task has run on a role of two hosts
C10_Witness ==
    /\ ntasks = 2
    /\ pc = "ready"
    /\ Len(issued) = 2
    /\ env.roledefs = roledefs_of(membership_yaml).val
====
